---- MODULE Spec2Model ----
(***************************************************************************)
(* Swap-based particle swarm optimizer for the traveling salesman problem  *)
(* (src/main.rs): the swarm, the global best, the update and prune passes  *)
(* and the cost function, with f64 arithmetic modelled bit for bit.        *)
(***************************************************************************)
EXTENDS Integers, Sequences, FiniteSets, TLC

VARIABLES
    cities,                 \* main: the catalog generate_cities returned
    swarm,                  \* main: Vec<Particle>
    global_best_position,   \* main: Vec<usize>
    global_best_cost,       \* main: f64
    iteration,              \* main: iterations of `for _ in 0..MAX_ITERATIONS` done
    particle_index,         \* update_particles: index of the particle in hand
    pc,                     \* the statement the program is at
    reported,               \* what the two println! calls wrote, or NotReported
    pass_start_position,    \* history: global_best_position when the pass began
    pass_start_cost,        \* history: global_best_cost when the pass began
    pre_swap,               \* history: the position the swap pass started from
    reset_from,             \* history: pre-sort indices the last prune pass reset
    updates_done,           \* history: particle updates completed in the run
    prunes_done,            \* history: prune passes completed in the run
    call_route,             \* a call of calculate_cost on its own: its route
    call_cities,            \* ... its catalog
    call_outcome            \* ... its outcome, or NotCalled

vars == << cities, swarm, global_best_position, global_best_cost, iteration,
           particle_index, pc, reported, pass_start_position, pass_start_cost,
           pre_swap, reset_from, updates_done, prunes_done,
           call_route, call_cities, call_outcome >>

main_vars == << cities, swarm, global_best_position, global_best_cost, iteration,
                particle_index, pc, reported, pass_start_position,
                pass_start_cost, pre_swap, reset_from, updates_done, prunes_done >>

call_vars == << call_route, call_cities, call_outcome >>

(***************************************************************************)
(* f64.  A finite non-negative f64 value is the finite set of the binary   *)
(* exponents of its set bits: the value of S is the sum of 2^p over p in   *)
(* S, so 0.0 is {}, 1.0 is {0}, 2.5 is {1, -1}.  The representation is     *)
(* canonical (equal values are equal sets), and a value is an f64 when its *)
(* highest and lowest exponents are at most 52 apart.  Every cost of the   *)
(* program lies in [0, 2^31), far from overflow and from subnormals.       *)
(***************************************************************************)

\* Number of significand bits of an f64 (IEEE 754 binary64).
F64_MANTISSA_DIGITS == 53

\* Fraction bits the square root is developed to before it is rounded; the
\* root of a positive integer has its leading bit at 2^0 or above, so its
\* rounding bit (2^-53 or above) lies inside the development.
SQRT_FRACTION_BITS == 54

\* Exponent of the sticky bit standing for a nonzero remainder of the root:
\* right below the last bit developed.
STICKY_BIT == -SQRT_FRACTION_BITS - 1

Pow2(n) == IF n = 0 THEN 1 ELSE 2 ^ n

\* i32 -> f64 (`as f64`): exact, every i32 has at most 31 significant bits.
IntBits(n) == {p \in 0..30 : (n \div Pow2(p)) % 2 = 1}

XorBits(A, B) == (A \ B) \cup (B \ A)

\* The highest exponent of a nonzero value (found as the least of the
\* negated exponents, which a search in ascending order meets first).
MaxBit(S) ==
    LET negated == {-p : p \in S}
    IN  -(CHOOSE n \in negated : \A m \in negated : n <= m)

\* Exact sum of two values: the carries move up until none is left.
RECURSIVE AddExact(_, _)
AddExact(A, B) ==
    IF B = {} THEN A
    ELSE AddExact(XorBits(A, B), {p + 1 : p \in A \cap B})

\* Exact difference A - B of two values with A >= B: the borrows move up.
RECURSIVE SubExact(_, _)
SubExact(A, B) ==
    IF B = {} THEN A
    ELSE SubExact(XorBits(A, B), {p + 1 : p \in B \ A})

\* a < b on f64 (partial_cmp, the `<` operator): no NaN arises here.
f64_lt(A, B) == A # B /\ MaxBit(XorBits(A, B)) \in B

f64_le(A, B) == A = B \/ f64_lt(A, B)

\* Round an exact value to the nearest f64, ties to even.
RoundF64(S) ==
    IF S = {} THEN {}
    ELSE LET cut  == MaxBit(S) - (F64_MANTISSA_DIGITS - 1)
             kept == {p \in S : p >= cut}
             rest == {p \in S : p < cut}
             up   == AddExact(kept, {cut})
         IN  IF (cut - 1) \notin rest THEN kept
             ELSE IF rest = {cut - 1}
                  THEN (IF cut \in kept THEN up ELSE kept)
                  ELSE up

\* a + b on f64.
f64_add(A, B) == RoundF64(AddExact(A, B))

\* Digit-by-digit square root of the integer n: R is the root so far (bits
\* above p), rem = n - R^2; bit p enters R when (R + 2^p)^2 <= n, that is
\* when 2^(p+1) * R + 2^(2p) <= rem.
RECURSIVE SqrtDigits(_, _, _)
SqrtDigits(R, rem, p) ==
    IF p < -SQRT_FRACTION_BITS
    THEN R \cup (IF rem = {} THEN {} ELSE {STICKY_BIT})
    ELSE LET T == {q + p + 1 : q \in R} \cup {2 * p}
         IN  IF f64_le(T, rem)
             THEN SqrtDigits(R \cup {p}, SubExact(rem, T), p - 1)
             ELSE SqrtDigits(R, rem, p - 1)

\* (n as f64).sqrt() for an i32 n >= 0: the correctly rounded square root.
f64_sqrt(n) == RoundF64(SqrtDigits({}, IntBits(n), 15))

(***************************************************************************)
(* Configuration (src/main.rs:3-11).  The four sizes are scaled down from  *)
(* 20 cities, 500 particles, 2000 iterations and 10 percent so that the    *)
(* state space is small and a prune pass resets one particle; with three   *)
(* cities every tour is the same triangle, and the costs of two tours      *)
(* differ, when they do, by the rounding of their f64 sums.  The three     *)
(* probabilities are held in units of 10^-5.                               *)
(***************************************************************************)

NUM_CITIES == 3
NUM_PARTICLES == 2
MAX_ITERATIONS == 2
PRUNE_PERCENTAGE == 50

COGNITIVE_COMPONENT == 149445
SOCIAL_COMPONENT == 149445
MUTATION_RATE == 10000

\* One unit of probability, in the units of the three thresholds above.
PROBABILITY_SCALE == 10 ^ 5

\* random_range(0, 100): the percent draws behind every probability test.
PERCENT_RANGE == 100

(***************************************************************************)
(* Cities.  generate_cities draws every coordinate from [0, 100); the      *)
(* model runs on catalogs cut from two fixed lists of such points.         *)
(***************************************************************************)

City(x, y) == [x |-> x, y |-> y]

SquarePool ==
    << City(0, 0), City(10, 0), City(10, 10), City(0, 10), City(5, 17), City(3, 2) >>

SkewPool ==
    << City(0, 0), City(0, 1), City(3, 2), City(7, 1), City(2, 9), City(8, 8) >>

\* The catalogs generate_cities returns in the runs of the optimizer.
Catalogs == { SubSeq(SkewPool, 1, NUM_CITIES) }

(***************************************************************************)
(* random_range, Vec::swap, shuffle_vec.  City ids and indices are 0-based *)
(* as in the source; a Vec is a sequence whose element i is at i + 1.      *)
(***************************************************************************)

\* The values random_range(min, max) can return: min + (clock % (max - min)).
random_range(min, max) == min .. (max - 1)

At(vec, i) == vec[i + 1]

\* Mutant of Swap: the element at i is overwritten and the one at j is kept.
Swap_overwrite(vec, i, j) ==
    [n \in 1..Len(vec) |-> IF n = i + 1 THEN vec[j + 1] ELSE vec[n]]

\* vec.swap(i, j)
Swap(vec, i, j) ==
    [n \in 1..Len(vec) |->
        IF n = i + 1 THEN vec[j + 1]
        ELSE IF n = j + 1 THEN vec[i + 1]
        ELSE vec[n]]

\* (0..n).collect()
Identity(n) == [i \in 1..n |-> i - 1]

\* The vectors shuffle_vec can leave from the loop index i on, one element
\* of the set per outcome of the draws.
RECURSIVE ShuffleFrom(_, _)
ShuffleFrom(vecs, i) ==
    IF vecs = {} THEN {}
    ELSE LET len == Len(CHOOSE v \in vecs : TRUE)
         IN  IF i >= len THEN vecs
             ELSE ShuffleFrom({Swap(v, i, j) : v \in vecs, j \in random_range(0, len)},
                              i + 1)

shuffle_vec(vec) == ShuffleFrom({vec}, 0)

(***************************************************************************)
(* calculate_cost.  A call either returns an f64 or panics (an index out   *)
(* of bounds; for an empty route `route.len() - 1` overflows, which panics *)
(* in a debug build and in a release build wraps, after which route[0] is  *)
(* out of bounds).  The function has no other outcome.                     *)
(***************************************************************************)

Returned(v) == [kind |-> "returned", value |-> v]
Panicked == [kind |-> "panicked"]

InBounds(vec, i) == i \in 0 .. (Len(vec) - 1)

\* (((a.x - b.x).pow(2) + (a.y - b.y).pow(2)) as f64).sqrt()
EdgeCost(city_a, city_b) ==
    f64_sqrt((city_a.x - city_b.x) ^ 2 + (city_a.y - city_b.y) ^ 2)

\* for i in 0..route.len() - 1 { total_cost += ... }, from index i on.
RECURSIVE CostLoop(_, _, _, _)
CostLoop(route, catalog, i, total_cost) ==
    IF i >= Len(route) - 1 THEN Returned(total_cost)
    ELSE IF ~InBounds(catalog, At(route, i)) \/ ~InBounds(catalog, At(route, i + 1))
         THEN Panicked
         ELSE CostLoop(route, catalog, i + 1,
                       f64_add(total_cost,
                               EdgeCost(At(catalog, At(route, i)),
                                        At(catalog, At(route, i + 1)))))

\* Mutant of calculate_cost: the edge back to the starting city is left out.
calculate_cost_open(route, catalog) ==
    IF Len(route) = 0 THEN Panicked ELSE CostLoop(route, catalog, 0, {})

calculate_cost(route, catalog) ==
    IF Len(route) = 0 THEN Panicked
    ELSE LET loop == CostLoop(route, catalog, 0, {})
             first == At(route, 0)
             last  == At(route, Len(route) - 1)
         IN  IF loop = Panicked THEN Panicked
             ELSE IF ~InBounds(catalog, first) \/ ~InBounds(catalog, last)
                  THEN Panicked
                  ELSE Returned(f64_add(loop.value,
                                        EdgeCost(At(catalog, first), At(catalog, last))))

\* The permutations of [0, NUM_CITIES).
Tours ==
    {v \in [1..NUM_CITIES -> 0..(NUM_CITIES - 1)] :
        \A i, j \in 1..NUM_CITIES : v[i] = v[j] => i = j}

\* calculate_cost over the tours of each catalog, evaluated once and held as
\* a table (@@ turns a function given by a rule into the table of its
\* values): the cost function is pure, and the runs below call it on the
\* same few tours.
CostTable ==
    [c \in Catalogs |-> [r \in Tours |-> calculate_cost(r, c)] @@ << >>] @@ << >>

(***************************************************************************)
(* Particles and the operators of update_particles and prune_particles.    *)
(* A draw-dependent operator returns the set of its outcomes, one per      *)
(* outcome of the draws.                                                   *)
(***************************************************************************)

\* calculate_cost(&position, cities) in the optimizer, where it returns.
CostOf(route) ==
    IF route \in DOMAIN CostTable[cities]
    THEN CostTable[cities][route].value
    ELSE calculate_cost(route, cities).value

\* Particle::new(position, cost)
Particle_new(position, cost) ==
    [position |-> position, best_position |-> position,
     best_cost |-> cost, cost |-> cost]

\* The outcomes of `random_range(0, 100) as f64 / 100.0 < threshold`, the
\* threshold in units of 10^-5: r / 100 and the threshold are compared as
\* the decimal numbers they are (the f64 quotient r / 100.0 and the f64
\* literal are the correctly rounded values of two decimals that are equal
\* or at least 0.01 apart, so rounding cannot change the comparison).
Hits(threshold) ==
    {r * (PROBABILITY_SCALE \div PERCENT_RANGE) < threshold :
        r \in random_range(0, PERCENT_RANGE)}

\* Lines 132-137 for one index i: the cognitive swap, then the social swap.
SwapTowardBest(position, best_position, best_of_swarm, i, cognitive, social) ==
    LET pulled == IF cognitive THEN Swap(position, i, At(best_position, i))
                  ELSE position
    IN  IF social THEN Swap(pulled, i, At(best_of_swarm, i)) ELSE pulled

\* for i in 0..NUM_CITIES { ... } of update_particles, from index i on.
RECURSIVE SwapPassFrom(_, _, _, _)
SwapPassFrom(positions, best_position, best_of_swarm, i) ==
    IF i >= NUM_CITIES THEN positions
    ELSE SwapPassFrom(
             {SwapTowardBest(p, best_position, best_of_swarm, i, c, s) :
                 p \in positions,
                 c \in Hits(COGNITIVE_COMPONENT),
                 s \in Hits(SOCIAL_COMPONENT)},
             best_position, best_of_swarm, i + 1)

swap_pass(position, best_position, best_of_swarm) ==
    SwapPassFrom({position}, best_position, best_of_swarm, 0)

\* One `if random_range(0, 100) as f64 / 100.0 < MUTATION_RATE { swap }`.
MutationTrial(positions) ==
    {IF hit THEN Swap(p, index1, index2) ELSE p :
        p \in positions,
        hit \in Hits(MUTATION_RATE),
        index1 \in random_range(0, NUM_CITIES),
        index2 \in random_range(0, NUM_CITIES)}

apply_mutation_and_gaussian(position) == MutationTrial(MutationTrial({position}))

\* Mutant of Evaluate: an improvement records the cost without the position.
Evaluate_cost_without_position(particle) ==
    LET cost == CostOf(particle.position)
    IN  IF f64_lt(cost, particle.best_cost)
        THEN [particle EXCEPT !.cost = cost, !.best_cost = cost]
        ELSE [particle EXCEPT !.cost = cost]

\* Lines 143-149: the cost of the new position and the personal best.
Evaluate(particle) ==
    LET cost == CostOf(particle.position)
    IN  IF f64_lt(cost, particle.best_cost)
        THEN [particle EXCEPT !.cost = cost, !.best_cost = cost,
                              !.best_position = particle.position]
        ELSE [particle EXCEPT !.cost = cost]

\* Mutant of UpdateGlobalBest: every particle overwrites the global best.
UpdateGlobalBest_unconditional(best, particle) ==
    [position |-> particle.position, cost |-> particle.cost]

\* Lines 152-155: the global best after the particle, evaluated, is compared.
UpdateGlobalBest(best, particle) ==
    IF f64_lt(particle.cost, best.cost)
    THEN [position |-> particle.position, cost |-> particle.cost]
    ELSE best

\* Where index n goes in `order`, a sequence of indices of `particles` sorted
\* by cost: after every index whose particle does not cost more.
RECURSIVE SortedIndicesFrom(_, _, _)
SortedIndicesFrom(particles, order, n) ==
    IF n > Len(particles) THEN order
    ELSE LET before == {i \in 1..Len(order) :
                           ~f64_lt(particles[n].cost, particles[order[i]].cost)}
             at == Cardinality(before)
         IN  SortedIndicesFrom(
                 particles,
                 SubSeq(order, 1, at) \o << n >> \o SubSeq(order, at + 1, Len(order)),
                 n + 1)

\* Mutant of SortedIndices: the swarm is left in the order it has.
SortedIndices_unsorted(particles) == [n \in 1..Len(particles) |-> n]

\* swarm.sort_by(|a, b| a.cost.partial_cmp(&b.cost).unwrap()): the stable
\* ascending sort, as the pre-sort index of each sorted place.
SortedIndices(particles) == SortedIndicesFrom(particles, << >>, 1)

\* Mutant of prune_count: one particle too many.
prune_count_plus_one == (NUM_PARTICLES * PRUNE_PERCENTAGE) \div 100 + 1

\* NUM_PARTICLES * PRUNE_PERCENTAGE / 100
prune_count == (NUM_PARTICLES * PRUNE_PERCENTAGE) \div 100

\* The places NUM_PARTICLES - 1 - i, i in 0..prune_count, as 1-based places.
PrunedPlaces == {NUM_PARTICLES - i : i \in 0 .. (prune_count - 1)}

\* prune_particles: the sorted swarm with each pruned place holding a new
\* particle on a shuffle of the identity.
prune_particles(particles) ==
    LET order == SortedIndices(particles)
    IN  {[n \in 1..Len(particles) |->
             IF n \in PrunedPlaces
             THEN Particle_new(fresh[n], CostOf(fresh[n]))
             ELSE particles[order[n]]] :
         fresh \in [PrunedPlaces -> shuffle_vec(Identity(NUM_CITIES))]}

(***************************************************************************)
(* main: the state after lines 163-167, and one action per statement group *)
(* of the loop.  pc is the place of the single thread: "shuffle", "swap",  *)
(* "mutate", "evaluate" are the four parts of the body of the loop over    *)
(* the swarm for the particle at particle_index, "prune" is the call of    *)
(* prune_particles that ends update_particles, "report" the two println!   *)
(* calls, "done" the exit.                                                 *)
(***************************************************************************)

NotReported == [kind |-> "none"]
NotCalled == [kind |-> "not called"]
NoVec == << >>

\* initialize_particles: NUM_PARTICLES particles, each on a shuffle of the
\* identity.
initialize_particles ==
    {[n \in 1..NUM_PARTICLES |-> Particle_new(start[n], CostOf(start[n]))] :
        start \in [1..NUM_PARTICLES -> shuffle_vec(Identity(NUM_CITIES))]}

Current == swarm[particle_index + 1]

MainInit ==
    /\ cities \in Catalogs
    /\ swarm \in initialize_particles
    /\ global_best_position = swarm[1].best_position
    /\ global_best_cost = swarm[1].best_cost
    /\ iteration = 0
    /\ particle_index = 0
    /\ pc = IF MAX_ITERATIONS > 0 THEN "shuffle" ELSE "report"
    /\ reported = NotReported
    /\ pass_start_position = global_best_position
    /\ pass_start_cost = global_best_cost
    /\ pre_swap = NoVec
    /\ reset_from = {}
    /\ updates_done = 0
    /\ prunes_done = 0

CallIdle ==
    /\ call_route = NoVec
    /\ call_cities = NoVec
    /\ call_outcome = NotCalled

Init == MainInit /\ CallIdle

\* shuffle_vec(&mut particle.position)
ShuffleStep ==
    /\ pc = "shuffle"
    /\ \E shuffled \in shuffle_vec(Current.position) :
           swarm' = [swarm EXCEPT ![particle_index + 1].position = shuffled]
    /\ pc' = "swap"
    /\ reset_from' = {}
    /\ UNCHANGED << cities, global_best_position, global_best_cost, iteration,
                    particle_index, reported, pass_start_position,
                    pass_start_cost, pre_swap, updates_done, prunes_done >>

\* Mutant of SwapStep: the social swaps read the global best the pass
\* started with.
SwapStep_snapshot ==
    /\ pc = "swap"
    /\ \E swapped \in swap_pass(Current.position, Current.best_position,
                                pass_start_position) :
           swarm' = [swarm EXCEPT ![particle_index + 1].position = swapped]
    /\ pre_swap' = Current.position
    /\ pc' = "mutate"
    /\ UNCHANGED << cities, global_best_position, global_best_cost, iteration,
                    particle_index, reported, pass_start_position,
                    pass_start_cost, reset_from, updates_done, prunes_done >>

\* for i in 0..NUM_CITIES { cognitive swap; social swap }
SwapStep ==
    /\ pc = "swap"
    /\ \E swapped \in swap_pass(Current.position, Current.best_position,
                                global_best_position) :
           swarm' = [swarm EXCEPT ![particle_index + 1].position = swapped]
    /\ pre_swap' = Current.position
    /\ pc' = "mutate"
    /\ UNCHANGED << cities, global_best_position, global_best_cost, iteration,
                    particle_index, reported, pass_start_position,
                    pass_start_cost, reset_from, updates_done, prunes_done >>

\* apply_mutation_and_gaussian(&mut particle.position)
MutateStep ==
    /\ pc = "mutate"
    /\ \E mutated \in apply_mutation_and_gaussian(Current.position) :
           swarm' = [swarm EXCEPT ![particle_index + 1].position = mutated]
    /\ pre_swap' = NoVec
    /\ pc' = "evaluate"
    /\ UNCHANGED << cities, global_best_position, global_best_cost, iteration,
                    particle_index, reported, pass_start_position,
                    pass_start_cost, reset_from, updates_done, prunes_done >>

\* Lines 143-155, and the step of the loop over the swarm to the next
\* particle or, after the last one, to prune_particles.
EvaluateStep ==
    /\ pc = "evaluate"
    /\ LET particle == Evaluate(Current)
           best == UpdateGlobalBest([position |-> global_best_position,
                                     cost |-> global_best_cost], particle)
       IN  /\ swarm' = [swarm EXCEPT ![particle_index + 1] = particle]
           /\ global_best_position' = best.position
           /\ global_best_cost' = best.cost
    /\ updates_done' = updates_done + 1
    /\ IF particle_index + 1 < NUM_PARTICLES
       THEN particle_index' = particle_index + 1 /\ pc' = "shuffle"
       ELSE particle_index' = particle_index /\ pc' = "prune"
    /\ UNCHANGED << cities, iteration, reported, pass_start_position,
                    pass_start_cost, pre_swap, reset_from, prunes_done >>

\* Mutant of PruneStep: the loop ends as soon as a pass leaves the global
\* best as it was.
PruneStep_until_converged ==
    /\ pc = "prune"
    /\ swarm' \in prune_particles(swarm)
    /\ reset_from' = {SortedIndices(swarm)[n] : n \in PrunedPlaces}
    /\ prunes_done' = prunes_done + 1
    /\ iteration' = iteration + 1
    /\ particle_index' = 0
    /\ pass_start_position' = global_best_position
    /\ pass_start_cost' = global_best_cost
    /\ pc' = IF iteration + 1 < MAX_ITERATIONS /\ global_best_cost # pass_start_cost
             THEN "shuffle" ELSE "report"
    /\ UNCHANGED << cities, global_best_position, global_best_cost, reported,
                    pre_swap, updates_done >>

\* prune_particles(swarm, cities), the return of update_particles and the
\* step of `for _ in 0..MAX_ITERATIONS`.
PruneStep ==
    /\ pc = "prune"
    /\ swarm' \in prune_particles(swarm)
    /\ reset_from' = {SortedIndices(swarm)[n] : n \in PrunedPlaces}
    /\ prunes_done' = prunes_done + 1
    /\ iteration' = iteration + 1
    /\ particle_index' = 0
    /\ pass_start_position' = global_best_position
    /\ pass_start_cost' = global_best_cost
    /\ pc' = IF iteration + 1 < MAX_ITERATIONS THEN "shuffle" ELSE "report"
    /\ UNCHANGED << cities, global_best_position, global_best_cost, reported,
                    pre_swap, updates_done >>

\* println!("Best Route: ..."); println!("Best Cost: ...")
ReportStep ==
    /\ pc = "report"
    /\ reported' = [kind |-> "printed", route |-> global_best_position,
                    cost |-> global_best_cost]
    /\ pc' = "done"
    /\ UNCHANGED << cities, swarm, global_best_position, global_best_cost,
                    iteration, particle_index, pass_start_position,
                    pass_start_cost, pre_swap, reset_from, updates_done,
                    prunes_done >>

Next ==
    \/ ShuffleStep /\ UNCHANGED call_vars
    \/ SwapStep /\ UNCHANGED call_vars
    \/ MutateStep /\ UNCHANGED call_vars
    \/ EvaluateStep /\ UNCHANGED call_vars
    \/ PruneStep /\ UNCHANGED call_vars
    \/ ReportStep /\ UNCHANGED call_vars

Spec == Init /\ [][Next]_vars

\* The program is one thread that is never suspended: it takes its next
\* step whenever it has one.
FairSpec == Spec /\ WF_vars(Next)

(***************************************************************************)
(* calculate_cost on its own: one call on a route and a catalog drawn from *)
(* bounded sets that hold well-formed and malformed inputs.                *)
(***************************************************************************)

\* Longest route and largest catalog of a call.
MaxCallLen == 4

TwoCities == << City(0, 0), City(3, 4) >>

Square == SubSeq(SquarePool, 1, 4)

CallCatalogs ==
    {SubSeq(SquarePool, 1, n) : n \in 0..MaxCallLen}
        \cup {SubSeq(SkewPool, 1, n) : n \in 0..MaxCallLen}
        \cup {TwoCities}

\* Routes without a repeated city, of every length up to MaxCallLen.
CallRoutes ==
    UNION {{r \in [1..n -> 0..(MaxCallLen - 1)] :
               \A i, j \in 1..n : r[i] = r[j] => i = j} : n \in 0..MaxCallLen}

MainIdle ==
    /\ cities = NoVec
    /\ swarm = NoVec
    /\ global_best_position = NoVec
    /\ global_best_cost = {}
    /\ iteration = 0
    /\ particle_index = 0
    /\ pc = "idle"
    /\ reported = NotReported
    /\ pass_start_position = NoVec
    /\ pass_start_cost = {}
    /\ pre_swap = NoVec
    /\ reset_from = {}
    /\ updates_done = 0
    /\ prunes_done = 0

CallInit ==
    /\ call_route \in CallRoutes
    /\ call_cities \in CallCatalogs
    /\ call_outcome = NotCalled
    /\ MainIdle

CallStep ==
    /\ call_outcome = NotCalled
    /\ call_outcome' = calculate_cost(call_route, call_cities)
    /\ UNCHANGED << call_route, call_cities >>
    /\ UNCHANGED main_vars

CallNext == CallStep

CallSpec == CallInit /\ [][CallNext]_vars

(***************************************************************************)
(* Properties.                                                             *)
(***************************************************************************)

\* An iteration boundary: after initialization and after each call of
\* update_particles, its prune pass included.
AtBoundary == particle_index = 0 /\ pc \in {"shuffle", "report", "done"}

\* v holds each of 0 .. n-1 exactly once.
IsPermutation(v, n) ==
    /\ DOMAIN v = 1..n
    /\ \A c \in 0 .. (n - 1) : Cardinality({i \in 1..n : v[i] = c}) = 1

\* A particle as prune_particles leaves a pruned one.
IsFresh(particle) ==
    /\ IsPermutation(particle.position, NUM_CITIES)
    /\ particle.cost = CostOf(particle.position)
    /\ particle.best_position = particle.position
    /\ particle.best_cost = particle.cost

Injective(f) == \A a, b \in DOMAIN f : f[a] = f[b] => a = b

\* C1: at every iteration boundary the position and the best_position of
\* every particle hold each city index of [0, N) exactly once.
C1_PermutationInvariant ==
    AtBoundary =>
        \A n \in 1..Len(swarm) :
            /\ IsPermutation(swarm[n].position, NUM_CITIES)
            /\ IsPermutation(swarm[n].best_position, NUM_CITIES)

\* C1 witness: the run has ended and some particle stands away from its
\* personal best, so swaps and mutations have acted on it.
C1_Witness ==
    /\ pc = "done"
    /\ iteration = MAX_ITERATIONS
    /\ \E n \in 1..Len(swarm) : swarm[n].position # swarm[n].best_position

\* C2: the global best cost never increases, and it changes only when a
\* particle's newly computed cost is strictly below it, to that cost.
C2_MonotonicGlobalBest ==
    [][/\ f64_le(global_best_cost', global_best_cost)
       /\ global_best_cost' # global_best_cost =>
              /\ pc = "evaluate"
              /\ global_best_cost' = swarm'[particle_index + 1].cost
              /\ f64_lt(global_best_cost', global_best_cost)]_vars

\* C2 witness: the global best cost has dropped during the pass.
C2_Witness == pc # "idle" /\ f64_lt(global_best_cost, pass_start_cost)

\* C3: at every iteration boundary the global best cost is at most the
\* best_cost of every particle.
C3_GlobalBestIsLowest ==
    AtBoundary =>
        \A n \in 1..Len(swarm) : f64_le(global_best_cost, swarm[n].best_cost)

\* C4: at every iteration boundary each stored cost is the cost of the tour
\* stored with it (cost and position, best_cost and best_position, the
\* global best), and what is printed is a permutation with its own cost.
C4_StoredCostsMatch ==
    AtBoundary =>
        /\ \A n \in 1..Len(swarm) :
               /\ swarm[n].cost = CostOf(swarm[n].position)
               /\ swarm[n].best_cost = CostOf(swarm[n].best_position)
        /\ global_best_cost = CostOf(global_best_position)
        /\ reported # NotReported =>
               /\ IsPermutation(reported.route, NUM_CITIES)
               /\ reported.cost = CostOf(reported.route)

\* C4 witness: the result is printed, the global best has been replaced
\* during the run and a particle holds a personal best apart from its position.
C4_Witness ==
    /\ reported # NotReported
    /\ \E n \in 1..Len(swarm) : swarm[n].best_position # swarm[n].position
    /\ \A n \in 1..Len(swarm) : reported.route # swarm[n].best_position

\* C5: a prune pass keeps the swarm at NUM_PARTICLES particles, leaves the
\* global best alone, and leaves all but floor(NUM_PARTICLES *
\* PRUNE_PERCENTAGE / 100) particles exactly as they were (at whatever
\* place); the others are new particles.
C5_PruneFrame ==
    [][/\ Len(swarm') = Len(swarm)
       /\ pc = "prune" =>
              /\ Len(swarm') = NUM_PARTICLES
              /\ global_best_position' = global_best_position
              /\ global_best_cost' = global_best_cost
              /\ \E kept \in SUBSET (1..NUM_PARTICLES) :
                     /\ Cardinality(kept) = NUM_PARTICLES
                            - ((NUM_PARTICLES * PRUNE_PERCENTAGE) \div 100)
                     /\ \E from \in [kept -> 1..NUM_PARTICLES] :
                            /\ Injective(from)
                            /\ \A n \in kept : swarm'[n] = swarm[from[n]]
                     /\ \A n \in (1..NUM_PARTICLES) \ kept : IsFresh(swarm[n])']_vars

\* C5 witness: a prune pass has run and a particle it kept still holds a
\* personal best apart from its position.
C5_Witness ==
    /\ AtBoundary
    /\ prunes_done >= 1
    /\ \E n \in 1..Len(swarm) : swarm[n].best_position # swarm[n].position

\* C6: calculate_cost ends with an InvalidInput error whenever the route has
\* fewer than 2 entries or the catalog's length differs from the route's,
\* and returns a cost only otherwise.
C6_InvalidInputOnBadShape ==
    call_outcome # NotCalled =>
        LET bad == Len(call_route) < 2 \/ Len(call_cities) # Len(call_route)
        IN  /\ bad => call_outcome.kind = "invalid input"
            /\ call_outcome.kind = "returned" => ~bad

\* The route as a call is about: a permutation of at least 2 cities, with a
\* catalog of as many cities, and the call has ended.
WellFormedCall ==
    /\ call_outcome # NotCalled
    /\ Len(call_route) >= 2
    /\ Len(call_cities) = Len(call_route)
    /\ IsPermutation(call_route, Len(call_route))

\* The same cycle started k cities later.
Rotate(route, k) ==
    [i \in 1..Len(route) |-> route[((i - 1 + k) % Len(route)) + 1]]

\* The length of each edge of the cycle, the edge that leaves the i-th city
\* of the route at place i; the last one returns to the first city.
CycleEdges(route, catalog) ==
    [i \in 1..Len(route) |->
        EdgeCost(catalog[route[i] + 1], catalog[route[(i % Len(route)) + 1] + 1])]

\* The f64 sum of a sequence of lengths, added from the left to 0.0.
RECURSIVE SumInOrder(_)
SumInOrder(lengths) ==
    IF lengths = << >> THEN {}
    ELSE f64_add(SumInOrder(SubSeq(lengths, 1, Len(lengths) - 1)),
                 lengths[Len(lengths)])

\* One unit in the last place of a nonzero f64.
Ulp(v) == {MaxBit(v) - (F64_MANTISSA_DIGITS - 1)}

RECURSIVE Times(_, _)
Times(v, k) == IF k = 0 THEN {} ELSE AddExact(Times(v, k - 1), v)

\* a and b are at most k units in the last place of the larger apart.
WithinUlps(a, b, k) ==
    \/ a = b
    \/ LET hi == IF f64_lt(a, b) THEN b ELSE a
           lo == IF f64_lt(a, b) THEN a ELSE b
       IN  f64_le(SubExact(hi, lo), Times(Ulp(hi), k))

\* The value is a whole number.
IsWhole(v) == \A p \in v : p >= 0

\* The cost is the sum over the cycle, every edge once, and the spec's two
\* examples come out as 40 and 10.
CostIsCycleSum ==
    /\ call_outcome = Returned(SumInOrder(CycleEdges(call_route, call_cities)))
    /\ (call_route = << 0, 1, 2, 3 >> /\ call_cities = Square)
           => call_outcome = Returned(IntBits(40))
    /\ (call_route = << 0, 1 >> /\ call_cities = TwoCities)
           => call_outcome = Returned(IntBits(10))

\* C7 as stated: for a permutation of at least 2 cities calculate_cost
\* returns the sum of the lengths of the edges of the cycle, each once (40
\* for the square, 10 for the two cities), and the result is the same from
\* whichever city of the cycle the route starts.
C7_CostIsCycleLength ==
    WellFormedCall =>
        /\ CostIsCycleSum
        /\ \A k \in 1 .. (Len(call_route) - 1) :
               calculate_cost(Rotate(call_route, k), call_cities) = call_outcome

\* C7 as amended: the cost is the f64 sum, added in route order with the
\* closing edge last, of the edge lengths of the cycle, each once (40 for
\* the square, 10 for the two cities); started at another city of the cycle
\* the result is at most Len(route) - 1 units in the last place away, and
\* it is the same when every edge length is a whole number.
C7_CostIsCycleLengthUpToRounding ==
    WellFormedCall =>
        /\ CostIsCycleSum
        /\ \A k \in 1 .. (Len(call_route) - 1) :
               LET other == calculate_cost(Rotate(call_route, k), call_cities)
                   edges == CycleEdges(call_route, call_cities)
               IN  /\ other.kind = "returned"
                   /\ WithinUlps(other.value, call_outcome.value, Len(call_route) - 1)
                   /\ (\A i \in 1..Len(edges) : IsWhole(edges[i]))
                          => other = call_outcome

\* C7 witness: a call on a cycle of three cities has returned, and the same
\* cycle started at another city costs another f64.
C7_Witness ==
    /\ WellFormedCall
    /\ call_outcome.kind = "returned"
    /\ \E k \in 1 .. (Len(call_route) - 1) :
           calculate_cost(Rotate(call_route, k), call_cities) # call_outcome

\* C8: the run ends, after exactly MAX_ITERATIONS passes of NUM_PARTICLES
\* particle updates and one prune pass each, and nothing is printed before
\* the last pass has ended.
C8_RunsToTheBudget ==
    /\ <>(pc = "done")
    /\ [](reported # NotReported =>
              /\ iteration = MAX_ITERATIONS
              /\ prunes_done = MAX_ITERATIONS
              /\ updates_done = MAX_ITERATIONS * NUM_PARTICLES)
    /\ [](pc = "prune" => updates_done = (iteration + 1) * NUM_PARTICLES)
    /\ [](AtBoundary => /\ prunes_done = iteration
                        /\ updates_done = iteration * NUM_PARTICLES)

\* C8 witness: the run has ended with the result printed.
C8_Witness ==
    /\ pc = "done"
    /\ reported # NotReported
    /\ updates_done = MAX_ITERATIONS * NUM_PARTICLES

\* C9: particles are taken in swarm order; the swap pass of a particle reads
\* the global best as it stands, which is what the particle before it wrote
\* when it improved it, since no step between that write and the swap pass
\* changes it.
C9_SequentialGlobalBest ==
    [][/\ pc = "swap" =>
              swarm'[particle_index + 1].position
                  \in swap_pass(Current.position, Current.best_position,
                                global_best_position)
       /\ pc = "evaluate" =>
              /\ f64_lt(swarm'[particle_index + 1].cost, global_best_cost) =>
                     /\ global_best_position' = swarm'[particle_index + 1].position
                     /\ global_best_cost' = swarm'[particle_index + 1].cost
              /\ particle_index + 1 < NUM_PARTICLES =>
                     particle_index' = particle_index + 1 /\ pc' = "shuffle"
       /\ pc \in {"shuffle", "swap", "mutate"} =>
              UNCHANGED << global_best_position, global_best_cost, particle_index >>
      ]_vars

\* C9 witness: a particle other than the first has made its swap pass after
\* the global best was replaced in the same pass, and the position it
\* reached is none the global best of the start of the pass would give.
C9_Witness ==
    /\ pc = "mutate"
    /\ particle_index >= 1
    /\ global_best_position # pass_start_position
    /\ Current.position
           \notin swap_pass(pre_swap, Current.best_position, pass_start_position)

\* C10: the particles a prune pass resets are the prune_count costliest of
\* the swarm as the update pass left it; the others stay, in ascending
\* order of cost, and each reset particle is a new one: a permutation, its
\* cost, and a personal best equal to both.
C10_PruneResetsCostliest ==
    [][pc = "prune" =>
          \E reset \in SUBSET (1..NUM_PARTICLES) :
              LET keep == (1..NUM_PARTICLES) \ reset
                  kept_places == 1 .. Cardinality(keep)
              IN  /\ Cardinality(reset) = (NUM_PARTICLES * PRUNE_PERCENTAGE) \div 100
                  /\ \A i \in keep, j \in reset :
                         f64_le(swarm[i].cost, swarm[j].cost)
                  /\ \E from \in [kept_places -> keep] :
                         /\ Injective(from)
                         /\ \A n \in kept_places : swarm'[n] = swarm[from[n]]
                  /\ \A n, m \in kept_places :
                         n < m => f64_le(swarm'[n].cost, swarm'[m].cost)
                  /\ \A n \in (1..NUM_PARTICLES) \ kept_places : IsFresh(swarm[n])'
      ]_vars

\* C10 witness: a prune pass has just reset the particle that stood first
\* in the swarm, so the sort moved it behind a cheaper one.
C10_Witness ==
    /\ AtBoundary
    /\ prunes_done >= 1
    /\ 1 \in reset_from

====
